---- MODULE Spec2Model ----
(***************************************************************************)
(* MeetingSessionConfiguration: construction of a session configuration    *)
(* from a chime:CreateMeeting response and a chime:CreateAttendee response *)
(* (src/meetingsession/MeetingSessionConfiguration.ts).                    *)
(*                                                                         *)
(* A behaviour is two constructor calls in a row.  The first call takes a  *)
(* pair of responses drawn from Inputs; the second call takes a variant of *)
(* the first call's pair (other key casing, other key order, keys removed, *)
(* wrapper removed, other response replaced), so that the outcome of the   *)
(* two calls can be compared.                                              *)
(***************************************************************************)
EXTENDS Naturals, Sequences, FiniteSets, TLC

VARIABLES
    args,                    \* args[c]: the two arguments handed to constructor call c
    rel,                     \* how args[2] was derived from args[1]
    cur,                     \* the constructor call that is running (1 or 2)
    pc,                      \* position inside the running constructor call
    createMeetingResponse,   \* the constructor's parameter, reassigned while it runs
    createAttendeeResponse,  \* the constructor's parameter, reassigned while it runs
    this,                    \* the object under construction in the running call
    first                    \* what the first call gave, kept to compare the second with

vars == <<args, rel, cur, pc, createMeetingResponse, createAttendeeResponse, this, first>>

-----------------------------------------------------------------------------
(* JavaScript values.  Every value is a record of the same three fields so *)
(* that any two values can be compared.                                    *)
(*   kind "undef"  undefined                                               *)
(*   kind "null"   null                                                    *)
(*   kind "str"    a string, in s                                          *)
(*   kind "other"  a number, boolean or array                              *)
(*   kind "obj"    an object; in o, a sequence of entries [k, v] in        *)
(*                 insertion order, no key twice                           *)

Undefined == [kind |-> "undef", s |-> "", o |-> <<>>]

Null == [kind |-> "null", s |-> "", o |-> <<>>]

Other == [kind |-> "other", s |-> "", o |-> <<>>]

Str(s) == [kind |-> "str", s |-> s, o |-> <<>>]

Obj(entries) == [kind |-> "obj", s |-> "", o |-> entries]

Entry(k, v) == [k |-> k, v |-> v]

Range(f) == {f[i] : i \in DOMAIN f}

Keys(entries) == {entries[i].k : i \in DOMAIN entries}

\* if (value): undefined, null and "" are falsy; objects and other strings truthy
Truthy(value) ==
    \/ value.kind = "obj"
    \/ value.kind = "str" /\ value.s # ""

\* value.key for a value that is neither undefined nor null: the own property
\* of an object, undefined on a string (no key of the vocabulary is a
\* property of String)
Get(value, key) ==
    IF value.kind = "obj" /\ key \in Keys(value.o)
    THEN (CHOOSE e \in Range(value.o) : e.k = key).v
    ELSE Undefined

\* value.key throws a TypeError exactly when value is undefined or null
Throws(value) == value.kind \in {"undef", "null"}

-----------------------------------------------------------------------------
(* Property names.  Each row lists the spellings of one name that the      *)
(* model uses: lower case first, then the casing of the service response,  *)
(* then upper case.                                                        *)

Spellings ==
    << <<"meeting", "Meeting", "MEETING">>,
       <<"meetingid", "MeetingId", "MEETINGID">>,
       <<"mediaplacement", "MediaPlacement", "MEDIAPLACEMENT">>,
       <<"audiohosturl", "AudioHostUrl", "AUDIOHOSTURL">>,
       <<"screendataurl", "ScreenDataUrl", "SCREENDATAURL">>,
       <<"screensharingurl", "ScreenSharingUrl", "SCREENSHARINGURL">>,
       <<"screenviewingurl", "ScreenViewingUrl", "SCREENVIEWINGURL">>,
       <<"signalingurl", "SignalingUrl", "SIGNALINGURL">>,
       <<"turncontrolurl", "TurnControlUrl", "TURNCONTROLURL">>,
       <<"attendee", "Attendee", "ATTENDEE">>,
       <<"attendeeid", "AttendeeId", "ATTENDEEID">>,
       <<"externaluserid", "ExternalUserId", "EXTERNALUSERID">>,
       <<"jointoken", "JoinToken", "JOINTOKEN">>,
       <<"extra", "Extra", "EXTRA">> >>

\* the row of each spelling
RowOfSpelling ==
    [key \in UNION {Range(row) : row \in Range(Spellings)} |->
        CHOOSE row \in Range(Spellings) : key \in Range(row)]

RowOf(key) == RowOfSpelling[key]

\* the name a key spells
NameOf(key) == RowOf(key)[1]

\* a normalization that leaves the key as it is spelt
ToLowerCaseKeepsCase(key) == key

\* String.prototype.toLowerCase on the spellings above
ToLowerCase(key) == RowOf(key)[1]

-----------------------------------------------------------------------------
(* toLowerCasePropertyNames and convertMapToObject                         *)

\* Map.prototype.set: a key already in the map keeps its place and takes the
\* new value; a new key goes to the end
MapSet(map, key, value) ==
    IF key \in Keys(map)
    THEN [i \in DOMAIN map |-> IF map[i].k = key THEN Entry(key, value) ELSE map[i]]
    ELSE Append(map, Entry(key, value))

RECURSIVE toLowerCasePropertyNamesBreaks(_)
\* a normalization whose loop ends at the first value that is neither an
\* object nor a string
toLowerCasePropertyNamesBreaks(jsonObject) ==
    LET RECURSIVE Loop(_, _)
        Loop(i, output) ==
            IF i > Len(jsonObject.o) THEN output
            ELSE LET key == jsonObject.o[i].k
                     value == jsonObject.o[i].v
                 IN  IF value.kind = "obj"
                     THEN Loop(i + 1,
                               MapSet(output, ToLowerCase(key),
                                      [kind |-> "map", s |-> "",
                                       o |-> toLowerCasePropertyNamesBreaks(value)]))
                     ELSE IF value.kind = "str"
                          THEN Loop(i + 1, MapSet(output, ToLowerCase(key), value))
                          ELSE output
    IN  Loop(1, <<>>)

RECURSIVE toLowerCasePropertyNamesHoisted(_)
\* a normalization that also sets the entries of every nested object in the
\* Map of the object around it
toLowerCasePropertyNamesHoisted(jsonObject) ==
    LET RECURSIVE SetAll(_, _, _)
        SetAll(output, nested, j) ==
            IF j > Len(nested) THEN output
            ELSE SetAll(MapSet(output, nested[j].k, nested[j].v), nested, j + 1)
        RECURSIVE Loop(_, _)
        Loop(i, output) ==
            IF i > Len(jsonObject.o) THEN output
            ELSE LET key == jsonObject.o[i].k
                     value == jsonObject.o[i].v
                     nested == toLowerCasePropertyNamesHoisted(value)
                 IN  IF value.kind = "obj"
                     THEN Loop(i + 1,
                               SetAll(MapSet(output, ToLowerCase(key),
                                             [kind |-> "map", s |-> "", o |-> nested]),
                                      nested, 1))
                     ELSE IF value.kind = "str"
                          THEN Loop(i + 1, MapSet(output, ToLowerCase(key), value))
                          ELSE Loop(i + 1, output)
    IN  Loop(1, <<>>)

RECURSIVE toLowerCasePropertyNames(_)
\* The Map built from jsonObject, as a sequence of entries; a nested Map is
\* a value of kind "map".
toLowerCasePropertyNames(jsonObject) ==
    LET RECURSIVE Loop(_, _)
        Loop(i, output) ==
            IF i > Len(jsonObject.o) THEN output
            ELSE LET key == jsonObject.o[i].k
                     value == jsonObject.o[i].v
                 IN  IF value.kind = "obj"
                     THEN Loop(i + 1,
                               MapSet(output, ToLowerCase(key),
                                      [kind |-> "map", s |-> "",
                                       o |-> toLowerCasePropertyNames(value)]))
                     ELSE IF value.kind = "str"
                          THEN Loop(i + 1, MapSet(output, ToLowerCase(key), value))
                          ELSE Loop(i + 1, output)
    IN  Loop(1, <<>>)

RECURSIVE JSONRoundTrip(_)
\* JSON.parse(JSON.stringify(value)): an object keeps its string and object
\* properties, in order; a property holding undefined is left out
JSONRoundTrip(value) ==
    IF value.kind # "obj" THEN value
    ELSE LET kept == SelectSeq(value.o, LAMBDA e : e.v.kind \in {"str", "obj"})
         IN  Obj([i \in DOMAIN kept |-> Entry(kept[i].k, JSONRoundTrip(kept[i].v))])

\* a conversion without the instanceof Map branch: a nested Map is assigned
\* as it is and comes out of JSON as an empty object
convertMapToObjectShallow(map) ==
    JSONRoundTrip(Obj([i \in DOMAIN map |->
                          IF map[i].v.kind = "map"
                          THEN Entry(map[i].k, Obj(<<>>))
                          ELSE map[i]]))

RECURSIVE convertMapToObject(_)
\* one property per Map entry, in the Map's order, a nested Map converted in
\* turn; the object then goes through JSON
convertMapToObject(map) ==
    JSONRoundTrip(Obj([i \in DOMAIN map |->
                          IF map[i].v.kind = "map"
                          THEN Entry(map[i].k, convertMapToObject(map[i].v.o))
                          ELSE map[i]]))

\* this.convertMapToObject(this.toLowerCasePropertyNames(response))
Normalize(response) == convertMapToObject(toLowerCasePropertyNames(response))

-----------------------------------------------------------------------------
(* The responses of the service, in the two shapes the constructor's       *)
(* documentation shows.  style picks the spelling of every key:            *)
(* 1 lower case, 2 the service's casing, 3 upper case.                     *)

Sp(name, style) == RowOf(name)[style]

\* the values of the ten fields of one meeting and one attendee
FieldSets ==
    { [meetingid |-> "m1", audiohosturl |-> "a", screendataurl |-> "b",
       screensharingurl |-> "c", screenviewingurl |-> "d", signalingurl |-> "e",
       turncontrolurl |-> "f", attendeeid |-> "att1", externaluserid |-> "ext1",
       jointoken |-> "tok1"] }

MediaPlacement(f, style) ==
    Obj(<< Entry(Sp("audiohosturl", style), Str(f.audiohosturl)),
           Entry(Sp("screendataurl", style), Str(f.screendataurl)),
           Entry(Sp("screensharingurl", style), Str(f.screensharingurl)),
           Entry(Sp("screenviewingurl", style), Str(f.screenviewingurl)),
           Entry(Sp("signalingurl", style), Str(f.signalingurl)),
           Entry(Sp("turncontrolurl", style), Str(f.turncontrolurl)) >>)

FlatMeeting(f, style) ==
    Obj(<< Entry(Sp("meetingid", style), Str(f.meetingid)),
           Entry(Sp("mediaplacement", style), MediaPlacement(f, style)) >>)

WrappedMeeting(f, style) == Obj(<< Entry(Sp("meeting", style), FlatMeeting(f, style)) >>)

FlatAttendee(f, style) ==
    Obj(<< Entry(Sp("externaluserid", style), Str(f.externaluserid)),
           Entry(Sp("attendeeid", style), Str(f.attendeeid)),
           Entry(Sp("jointoken", style), Str(f.jointoken)) >>)

WrappedAttendee(f, style) == Obj(<< Entry(Sp("attendee", style), FlatAttendee(f, style)) >>)

-----------------------------------------------------------------------------
(* The constructor                                                         *)

\* new MeetingSessionURLs(): six slots, none set
NewMeetingSessionURLs ==
    [audioHostURL |-> Null, screenDataURL |-> Null, screenSharingURL |-> Null,
     screenViewingURL |-> Null, signalingURL |-> Null, turnControlURL |-> Null]

\* new AllHighestVideoBandwidthPolicy(id), new NScaleVideoUplinkBandwidthPolicy(id)
NewPolicy(class, selfAttendeeId) == [class |-> class, selfAttendeeId |-> selfAttendeeId]

\* field initialisers that create the URLs record up front
FieldDefaultsEagerURLs ==
    [meetingId |-> Null,
     credentials |-> Null,
     urls |-> NewMeetingSessionURLs,
     connectionTimeoutMs |-> 15000,
     screenSharingTimeoutMs |-> 5000,
     screenViewingTimeoutMs |-> 5000,
     attendeePresenceTimeoutMs |-> 0,
     screenSharingSessionOptions |-> {},
     enableWebAudio |-> FALSE,
     enableUnifiedPlanForChromiumBasedBrowsers |-> TRUE,
     enableSimulcastForUnifiedPlanChromiumBasedBrowsers |-> FALSE,
     videoDownlinkBandwidthPolicy |-> Null,
     videoUplinkBandwidthPolicy |-> Null]

\* the field initialisers of the class; connectionHealthPolicyConfiguration, a
\* default-constructed object that the constructor never touches, is left out
FieldDefaults ==
    [meetingId |-> Null,
     credentials |-> Null,
     urls |-> Null,
     connectionTimeoutMs |-> 15000,
     screenSharingTimeoutMs |-> 5000,
     screenViewingTimeoutMs |-> 5000,
     attendeePresenceTimeoutMs |-> 0,
     screenSharingSessionOptions |-> {},
     enableWebAudio |-> FALSE,
     enableUnifiedPlanForChromiumBasedBrowsers |-> TRUE,
     enableSimulcastForUnifiedPlanChromiumBasedBrowsers |-> FALSE,
     videoDownlinkBandwidthPolicy |-> Null,
     videoUplinkBandwidthPolicy |-> Null]

\* a constructor that reads the fields off the response as it came
UnwrapNever(response, wrapper) == response

RECURSIVE UnwrapDeep(_, _)
\* a constructor that unwraps for as long as there is a wrapper
UnwrapDeep(response, wrapper) ==
    IF Truthy(Get(response, wrapper))
    THEN UnwrapDeep(Get(response, wrapper), wrapper)
    ELSE response

\* if (createMeetingResponse.meeting) createMeetingResponse = createMeetingResponse.meeting
Unwrap(response, wrapper) ==
    IF Truthy(Get(response, wrapper)) THEN Get(response, wrapper) ELSE response

\* five assignments to this.urls: the last slot is never assigned
ReadURLsButOne(mediaplacement) ==
    [audioHostURL |-> Get(mediaplacement, "audiohosturl"),
     screenDataURL |-> Get(mediaplacement, "screendataurl"),
     screenSharingURL |-> Get(mediaplacement, "screensharingurl"),
     screenViewingURL |-> Get(mediaplacement, "screenviewingurl"),
     signalingURL |-> Get(mediaplacement, "signalingurl"),
     turnControlURL |-> Null]

\* the six assignments to this.urls
ReadURLs(mediaplacement) ==
    [audioHostURL |-> Get(mediaplacement, "audiohosturl"),
     screenDataURL |-> Get(mediaplacement, "screendataurl"),
     screenSharingURL |-> Get(mediaplacement, "screensharingurl"),
     screenViewingURL |-> Get(mediaplacement, "screenviewingurl"),
     signalingURL |-> Get(mediaplacement, "signalingurl"),
     turnControlURL |-> Get(mediaplacement, "turncontrolurl")]

\* the three assignments to this.credentials
ReadCredentials(attendee) ==
    [attendeeId |-> Get(attendee, "attendeeid"),
     externalUserId |-> Get(attendee, "externaluserid"),
     joinToken |-> Get(attendee, "jointoken")]

\* policies that are given the external user id
PolicyExternalUserId(config) ==
    IF config.credentials # Null THEN config.credentials.externalUserId ELSE Null

\* this.credentials ? this.credentials.attendeeId : null
PolicyAttendeeId(config) ==
    IF config.credentials # Null THEN config.credentials.attendeeId ELSE Null

\* The constructor's frame: where it is, its two parameters, and this.
Frame ==
    [pc |-> pc, createMeetingResponse |-> createMeetingResponse,
     createAttendeeResponse |-> createAttendeeResponse, this |-> this]

\* the frame on entry to new MeetingSessionConfiguration(meeting, attendee)
Entered(in) ==
    [pc |-> "start", createMeetingResponse |-> in.meeting,
     createAttendeeResponse |-> in.attendee, this |-> FieldDefaults]

Becomes(frame) ==
    /\ pc' = frame.pc
    /\ createMeetingResponse' = frame.createMeetingResponse
    /\ createAttendeeResponse' = frame.createAttendeeResponse
    /\ this' = frame.this

\* lines 141-145: the attendee response is normalized first
Lines141To145(f) ==
    [f EXCEPT !.createAttendeeResponse = IF Truthy(@) THEN Normalize(@) ELSE @,
              !.pc = "meeting"]

\* lines 146-161: the meeting response is normalized and unwrapped, meetingId
\* is assigned, urls is created and filled; reading a URL off a missing
\* mediaplacement throws before any slot is assigned
Lines146To161(f) ==
    IF Truthy(f.createMeetingResponse)
    THEN LET response == Unwrap(Normalize(f.createMeetingResponse), "meeting")
             mediaplacement == Get(response, "mediaplacement")
         IN  IF Throws(mediaplacement)
             THEN [f EXCEPT !.createMeetingResponse = response,
                            !.this.meetingId = Get(response, "meetingid"),
                            !.this.urls = NewMeetingSessionURLs,
                            !.pc = "thrown"]
             ELSE [f EXCEPT !.createMeetingResponse = response,
                            !.this.meetingId = Get(response, "meetingid"),
                            !.this.urls = ReadURLs(mediaplacement),
                            !.pc = "attendee"]
    ELSE [f EXCEPT !.pc = "attendee"]

\* lines 162-170: the attendee response is unwrapped, credentials is created
\* and filled
Lines162To170(f) ==
    IF Truthy(f.createAttendeeResponse)
    THEN LET response == Unwrap(f.createAttendeeResponse, "attendee")
         IN  [f EXCEPT !.createAttendeeResponse = response,
                       !.this.credentials = ReadCredentials(response),
                       !.pc = "screenshare"]
    ELSE [f EXCEPT !.pc = "screenshare"]

\* lines 171-173: the browser says whether screen share sends only keyframes
Lines171To173(f, screenShareSendsOnlyKeyframes) ==
    IF screenShareSendsOnlyKeyframes
    THEN [f EXCEPT !.this.screenSharingSessionOptions = {<<"bitRate", 384000>>},
                   !.pc = "policies"]
    ELSE [f EXCEPT !.pc = "policies"]

\* lines 176-181: the two default policies; the constructor returns
Lines176To181(f) ==
    [f EXCEPT !.this.videoDownlinkBandwidthPolicy =
                  NewPolicy("AllHighestVideoBandwidthPolicy", PolicyAttendeeId(f.this)),
              !.this.videoUplinkBandwidthPolicy =
                  NewPolicy("NScaleVideoUplinkBandwidthPolicy", PolicyAttendeeId(f.this)),
              !.pc = "done"]

\* the constructor from entry to the point where it returns or throws
Constructor(in, screenShareSendsOnlyKeyframes) ==
    LET f == Lines146To161(Lines141To145(Entered(in)))
    IN  IF f.pc = "thrown" THEN f
        ELSE Lines176To181(Lines171To173(Lines162To170(f), screenShareSendsOnlyKeyframes))

\* The first call, statement by statement.
NormalizeAttendee ==
    /\ pc = "start"
    /\ Becomes(Lines141To145(Frame))
    /\ UNCHANGED <<args, rel, cur, first>>

MeetingBlock ==
    /\ pc = "meeting"
    /\ Becomes(Lines146To161(Frame))
    /\ UNCHANGED <<args, rel, cur, first>>

AttendeeBlock ==
    /\ pc = "attendee"
    /\ Becomes(Lines162To170(Frame))
    /\ UNCHANGED <<args, rel, cur, first>>

ScreenShare ==
    /\ pc = "screenshare"
    /\ \E screenShareSendsOnlyKeyframes \in BOOLEAN :
           Becomes(Lines171To173(Frame, screenShareSendsOnlyKeyframes))
    /\ UNCHANGED <<args, rel, cur, first>>

Policies ==
    /\ pc = "policies"
    /\ Becomes(Lines176To181(Frame))
    /\ UNCHANGED <<args, rel, cur, first>>

-----------------------------------------------------------------------------
(* Responses other than the two documented ones: every response that is    *)
(* a few edits away from a documented one.  An edit removes an entry,      *)
(* gives an entry a value of another kind, respells a key, or appends an   *)
(* entry; it applies to an object at any depth.                            *)

RemoveAt(es, i) == [j \in 1..(Len(es) - 1) |-> IF j < i THEN es[j] ELSE es[j + 1]]

SetValueAt(es, i, value) == [es EXCEPT ![i] = Entry(es[i].k, value)]

SetKeyAt(es, i, key) == [es EXCEPT ![i] = Entry(key, es[i].v)]

\* the service's spelling of name, or the upper-case one when es has the former
FreeSpelling(es, name) ==
    IF RowOf(name)[2] \in Keys(es) THEN RowOf(name)[3] ELSE RowOf(name)[2]

\* a second meeting and a second attendee, whose values differ from FieldSets'
OtherFields ==
    [meetingid |-> "m2", audiohosturl |-> "a2", screendataurl |-> "b2",
     screensharingurl |-> "c2", screenviewingurl |-> "d2", signalingurl |-> "e2",
     turncontrolurl |-> "f2", attendeeid |-> "att2", externaluserid |-> "ext2",
     jointoken |-> "tok2"]

URLFields ==
    {"audiohosturl", "screendataurl", "screensharingurl", "screenviewingurl",
     "signalingurl", "turncontrolurl"}

CredentialFields == {"attendeeid", "externaluserid", "jointoken"}

StringFields == {"meetingid"} \cup URLFields \cup CredentialFields

StructureFields == {"meeting", "mediaplacement", "attendee"}

\* the names an edit may append to an object, by where the object sits:
\* "meeting" (the meeting response, or an object in it), "mediaplacement"
\* (the value of a mediaplacement key), "attendee"
NamesAt(level) ==
    CASE level = "meeting" -> {"meeting", "meetingid", "mediaplacement", "extra"}
      [] level = "mediaplacement" -> URLFields \cup {"extra"}
      [] level = "attendee" -> {"attendee"} \cup CredentialFields \cup {"extra"}

\* the values an appended entry of the given name may hold
InsertValues(name) ==
    CASE name = "meeting" ->
           {Str("x"), Str(""), Obj(<<>>), FlatMeeting(OtherFields, 2)}
      [] name = "mediaplacement" -> {Str("x"), MediaPlacement(OtherFields, 2)}
      [] name = "attendee" -> {Str("x"), Str(""), FlatAttendee(OtherFields, 2)}
      [] name = "extra" -> {Str("xtra"), Other, Obj(<<Entry("MeetingId", Str("xtra"))>>)}
      [] OTHER -> {Str("x")}

\* the values of another kind than value
OtherKinds(value) ==
    IF value.kind = "obj"
    THEN {Str("x"), Str(""), Other}
    ELSE {Obj(<<Entry("Extra", Str("xtra"))>>), Other}

\* an entry of the given name appended to es, under a spelling es does not have
Inserts(es, name) ==
    IF FreeSpelling(es, name) \in Keys(es) THEN {}
    ELSE {Append(es, Entry(FreeSpelling(es, name), v)) : v \in InsertValues(name)}

LocalEdits(es, level) ==
    {RemoveAt(es, i) : i \in DOMAIN es}
    \cup UNION {{SetValueAt(es, i, v) : v \in OtherKinds(es[i].v)} : i \in DOMAIN es}
    \cup {SetKeyAt(es, i, FreeSpelling(es, es[i].k)) :
             i \in {j \in DOMAIN es : FreeSpelling(es, es[j].k) \notin Keys(es)}}
    \cup UNION {Inserts(es, name) : name \in NamesAt(level)}

RECURSIVE Edits(_, _)
\* the entry sequences one edit away from es, the edit made in es or in an
\* object below it
Edits(es, level) ==
    LocalEdits(es, level)
    \cup UNION {{SetValueAt(es, i, Obj(inner)) :
                    inner \in Edits(es[i].v.o,
                                    IF NameOf(es[i].k) = "mediaplacement"
                                    THEN "mediaplacement" ELSE level)}
                : i \in {j \in DOMAIN es : es[j].v.kind = "obj"}}

RECURSIVE EditedUpTo(_, _, _)
\* the responses at most n edits away from response
EditedUpTo(n, response, level) ==
    IF n = 0 \/ response = Undefined THEN {response}
    ELSE LET nearer == EditedUpTo(n - 1, response, level)
         IN  nearer \cup UNION {{Obj(es) : es \in Edits(r.o, level)} : r \in nearer}

-----------------------------------------------------------------------------
(* The arguments of the first call                                         *)

MaxEdits == 1

Args(meeting, attendee) == [meeting |-> meeting, attendee |-> attendee]

\* the shapes the two arguments start from, before any edit
BaseShapes ==
    UNION {{ Args(WrappedMeeting(f, 2), WrappedAttendee(f, 2)),
             Args(FlatMeeting(f, 2), FlatAttendee(f, 2)),
             Args(Undefined, Undefined) } : f \in FieldSets}

\* a pair of documented responses with at most MaxEdits edits between them
Inputs(base) ==
    UNION {{Args(m, a) : m \in EditedUpTo(k, base.meeting, "meeting"),
                         a \in EditedUpTo(MaxEdits - k, base.attendee, "attendee")}
           : k \in 0..MaxEdits}

NoOutcome == [result |-> "none"]

Init ==
    /\ \E base \in BaseShapes :
           args \in {<<in, Args(Undefined, Undefined)>> : in \in Inputs(base)}
    /\ rel = "none"
    /\ cur = 1
    /\ pc = "start"
    /\ createMeetingResponse = args[1].meeting
    /\ createAttendeeResponse = args[1].attendee
    /\ this = FieldDefaults
    /\ first = NoOutcome

-----------------------------------------------------------------------------
(* The arguments of the second call: the first call's, changed in one of   *)
(* the ways the constructor is meant not to notice.                        *)

RECURSIVE Respelt(_, _)
\* value with every key, at every depth, in the given style
Respelt(value, style) ==
    IF value.kind # "obj" THEN value
    ELSE Obj([i \in DOMAIN value.o |->
                 Entry(Sp(value.o[i].k, style), Respelt(value.o[i].v, style))])

RECURSIVE RespeltOnce(_)
\* value with one key, at any depth, under another spelling that its object
\* does not have yet
RespeltOnce(value) ==
    IF value.kind # "obj" THEN {}
    ELSE LET es == value.o
         IN  UNION {{Obj(SetKeyAt(es, i, k)) : k \in Range(RowOf(es[i].k)) \ Keys(es)}
                    : i \in DOMAIN es}
             \cup UNION {{Obj(SetValueAt(es, i, inner)) : inner \in RespeltOnce(es[i].v)}
                         : i \in DOMAIN es}

RECURSIVE WellFormed(_)
\* no object of value has the same key twice
WellFormed(value) ==
    \/ value.kind # "obj"
    \/ /\ Cardinality(Keys(value.o)) = Len(value.o)
       /\ \A i \in DOMAIN value.o : WellFormed(value.o[i].v)

\* no object of value has two keys that differ in letter-casing only
CaseDistinct(value) == WellFormed(Respelt(value, 1))

\* both responses in lower case and in upper case; where two keys of an
\* object differ in casing only, one key respelt at a time instead
Recasings(in) ==
    IF CaseDistinct(in.meeting) /\ CaseDistinct(in.attendee)
    THEN {Args(Respelt(in.meeting, style), Respelt(in.attendee, style)) : style \in {1, 3}}
    ELSE {Args(m, in.attendee) : m \in RespeltOnce(in.meeting)}
         \cup {Args(in.meeting, a) : a \in RespeltOnce(in.attendee)}

RECURSIVE Reversed(_)
\* value with the entries of every object in the opposite order
Reversed(value) ==
    IF value.kind # "obj" THEN value
    ELSE Obj([i \in DOMAIN value.o |->
                 Entry(value.o[Len(value.o) + 1 - i].k,
                       Reversed(value.o[Len(value.o) + 1 - i].v))])

\* the response without its Meeting or Attendee wrapper, when the wrapper is
\* all there is in it
Flattened(value, wrapper) ==
    IF /\ value.kind = "obj"
       /\ Len(value.o) = 1
       /\ NameOf(value.o[1].k) = wrapper
       /\ value.o[1].v.kind = "obj"
    THEN value.o[1].v
    ELSE value

RECURSIVE WithoutUnknown(_)
\* value without the keys outside the vocabulary: those of the response
\* itself, of its wrapper and of its mediaplacement
WithoutUnknown(value) ==
    IF value.kind # "obj" THEN value
    ELSE LET kept == SelectSeq(value.o, LAMBDA e : NameOf(e.k) # "extra")
         IN  Obj([i \in DOMAIN kept |->
                     IF NameOf(kept[i].k) \in StructureFields
                     THEN Entry(kept[i].k, WithoutUnknown(kept[i].v))
                     ELSE kept[i]])

\* a nested structure where a string is expected, or a string where a nested
\* structure is expected
Mistyped(e) ==
    \/ NameOf(e.k) \in StringFields /\ e.v.kind = "obj"
    \/ NameOf(e.k) \in StructureFields /\ e.v.kind = "str"

RECURSIVE WithoutMistyped(_)
\* value without the entries, at any depth, whose value is of the wrong kind
WithoutMistyped(value) ==
    IF value.kind # "obj" THEN value
    ELSE LET kept == SelectSeq(value.o, LAMBDA e : ~Mistyped(e))
         IN  Obj([i \in DOMAIN kept |->
                     Entry(kept[i].k, WithoutMistyped(kept[i].v))])

\* the normalized response has the wrapper key and it holds a nested structure
HasWrapper(value, wrapper) ==
    /\ value.kind = "obj"
    /\ Get(Normalize(value), wrapper).kind = "obj"

\* a wrapped response with nothing beside the wrapper and no second wrapper
\* inside the first
WrapperOnly(value, wrapper) ==
    LET outer == SelectSeq(value.o, LAMBDA e : NameOf(e.k) = wrapper)
        Inner(v) == IF v.kind # "obj" THEN v
                    ELSE Obj(SelectSeq(v.o, LAMBDA e : NameOf(e.k) # wrapper))
    IN  Obj([i \in DOMAIN outer |-> Entry(outer[i].k, Inner(outer[i].v))])

\* the ways to derive the second call's arguments from the first call's
Variants(in) ==
    {<<"recase", v>> : v \in Recasings(in)}
    \cup {<<"reorder", Args(Reversed(in.meeting), Reversed(in.attendee))>>}
    \cup {<<"flatten", Args(Flattened(in.meeting, "meeting"),
                            Flattened(in.attendee, "attendee"))>>}
    \cup {<<"unknown", Args(WithoutUnknown(in.meeting), WithoutUnknown(in.attendee))>>}
    \cup {<<"mistyped", Args(WithoutMistyped(in.meeting), WithoutMistyped(in.attendee))>>}
    \cup {<<"beside", Args(IF HasWrapper(in.meeting, "meeting")
                           THEN WrapperOnly(in.meeting, "meeting") ELSE in.meeting,
                           IF HasWrapper(in.attendee, "attendee")
                           THEN WrapperOnly(in.attendee, "attendee") ELSE in.attendee)>>}
    \cup {<<"attendee", Args(in.meeting, a)>> :
             a \in {Undefined, FlatAttendee(OtherFields, 2)}}
    \cup {<<"meeting", Args(m, in.attendee)>> :
             m \in {Undefined, FlatMeeting(OtherFields, 2)}}

\* what a caller has after a call: nothing but the exception when the
\* constructor threw, the configuration when it returned
Outcome ==
    IF pc = "thrown" THEN [result |-> "thrown"]
    ELSE [result |-> "returned", meetingId |-> this.meetingId, urls |-> this.urls,
          credentials |-> this.credentials]

\* the first call is over: new MeetingSessionConfiguration(...) is called
\* again, with arguments that differ from the first call's, and runs to
\* its end
ConstructAgain ==
    /\ cur = 1
    /\ pc \in {"done", "thrown"}
    /\ \E v \in Variants(args[1]), screenShareSendsOnlyKeyframes \in BOOLEAN :
          /\ v[2] # args[1]
          /\ rel' = v[1]
          /\ args' = [args EXCEPT ![2] = v[2]]
          /\ Becomes(Constructor(v[2], screenShareSendsOnlyKeyframes))
    /\ first' = Outcome
    /\ cur' = 2

Next ==
    \/ NormalizeAttendee
    \/ MeetingBlock
    \/ AttendeeBlock
    \/ ScreenShare
    \/ Policies
    \/ ConstructAgain

Spec == Init /\ [][Next]_vars

-----------------------------------------------------------------------------
(* What the claims are stated with                                         *)

Finished == pc \in {"done", "thrown"}

\* the second call is over and its arguments were derived in the given way
Compared(how) == cur = 2 /\ rel = how /\ Finished

Supplied(response) == response # Undefined

Populated(value) == value.kind \notin {"undef", "null"}

\* the value under the given name among the entries es, Undefined when no
\* key spells it
Field(es, name) ==
    IF \E i \in DOMAIN es : NameOf(es[i].k) = name
    THEN es[CHOOSE i \in DOMAIN es : NameOf(es[i].k) = name].v
    ELSE Undefined

\* an object whose keys spell exactly the given names, once each, all
\* holding strings
AllStrings(value, names) ==
    /\ value.kind = "obj"
    /\ Len(value.o) = Cardinality(names)
    /\ {NameOf(k) : k \in Keys(value.o)} = names
    /\ \A i \in DOMAIN value.o : value.o[i].v.kind = "str"

\* the flat shape of the documentation, under any spelling and in any order
ValidFlatMeeting(value) ==
    /\ value.kind = "obj"
    /\ Len(value.o) = 2
    /\ Field(value.o, "meetingid").kind = "str"
    /\ AllStrings(Field(value.o, "mediaplacement"), URLFields)

ValidFlatAttendee(value) == AllStrings(value, CredentialFields)

\* the wrapped shape of the documentation
ValidWrappedMeeting(value) ==
    /\ value.kind = "obj"
    /\ Len(value.o) = 1
    /\ ValidFlatMeeting(Field(value.o, "meeting"))

ValidWrappedAttendee(value) ==
    /\ value.kind = "obj"
    /\ Len(value.o) = 1
    /\ ValidFlatAttendee(Field(value.o, "attendee"))

RECURSIVE Content(_)
\* a value without the order of its properties
Content(value) ==
    [kind |-> value.kind, s |-> value.s,
     o |-> {<<value.o[i].k, Content(value.o[i].v)>> : i \in DOMAIN value.o}]

\* an outcome without the order of the properties of the objects in it
View(outcome) ==
    IF outcome.result # "returned" THEN outcome
    ELSE [result |-> "returned",
          meetingId |-> Content(outcome.meetingId),
          urls |-> IF outcome.urls = Null THEN {}
                   ELSE {[n \in DOMAIN outcome.urls |-> Content(outcome.urls[n])]},
          credentials |-> IF outcome.credentials = Null THEN {}
                          ELSE {[n \in DOMAIN outcome.credentials |->
                                    Content(outcome.credentials[n])]}]

RECURSIVE Mentions(_, _)
\* the string s is a value somewhere in value
Mentions(value, s) ==
    \/ value.kind = "str" /\ value.s = s
    \/ \E i \in DOMAIN value.o : Mentions(value.o[i].v, s)

\* the string s is a value somewhere in the configuration
ConfigMentions(config, s) ==
    \/ Mentions(config.meetingId, s)
    \/ config.urls # Null /\ \E n \in DOMAIN config.urls : Mentions(config.urls[n], s)
    \/ /\ config.credentials # Null
       /\ \E n \in DOMAIN config.credentials : Mentions(config.credentials[n], s)

-----------------------------------------------------------------------------
(* The claims                                                              *)

\* C1: shape equivalence.  For a valid set of field values, the call with
\* the wrapped responses and the call with the same responses without
\* their Meeting and Attendee wrappers both return, with the same
\* meetingId, the same six URLs and the same three credentials.
C1_ShapeEquivalence ==
    ( /\ Compared("flatten")
      /\ ValidWrappedMeeting(args[1].meeting)
      /\ ValidWrappedAttendee(args[1].attendee) )
    => /\ ValidFlatMeeting(args[2].meeting)
       /\ ValidFlatAttendee(args[2].attendee)
       /\ first.result = "returned"
       /\ Outcome = first

C1_Witness ==
    /\ Compared("flatten")
    /\ pc = "done"
    /\ ValidWrappedMeeting(args[1].meeting)
    /\ ValidWrappedAttendee(args[1].attendee)
    /\ this.meetingId = Str("m1")
    /\ this.urls.turnControlURL = Str("f")
    /\ this.credentials.joinToken = Str("tok1")

\* the slot of urls or credentials that each field is read into
SlotOf ==
    [audiohosturl |-> "audioHostURL", screendataurl |-> "screenDataURL",
     screensharingurl |-> "screenSharingURL", screenviewingurl |-> "screenViewingURL",
     signalingurl |-> "signalingURL", turncontrolurl |-> "turnControlURL",
     attendeeid |-> "attendeeId", externaluserid |-> "externalUserId",
     jointoken |-> "joinToken"]

RECURSIVE Names(_)
\* the names that the keys of value spell, at any depth
Names(value) ==
    UNION {{NameOf(value.o[i].k)} \cup Names(value.o[i].v) : i \in DOMAIN value.o}

\* some key of value, at any depth, spells the given name
Spells(value, name) == name \in Names(value)

\* a field that the responses have no key for is absent in the configuration
MissingIsAbsent ==
    /\ ~Spells(args[cur].meeting, "meetingid") => ~Populated(this.meetingId)
    /\ \A name \in URLFields \ Names(args[cur].meeting) :
          this.urls = Null \/ ~Populated(this.urls[SlotOf[name]])
    /\ \A name \in CredentialFields \ Names(args[cur].attendee) :
          this.credentials = Null \/ ~Populated(this.credentials[SlotOf[name]])

\* C2 as stated: the constructor never throws, whatever keys the responses
\* lack, a meeting response without mediaplacement included; it returns,
\* and a field that the responses have nothing for is left absent.
C2_NeverThrows ==
    /\ pc # "thrown"
    /\ pc = "done" => MissingIsAbsent

\* the meeting response, normalized and unwrapped, has no mediaplacement
NoMediaplacement(meeting) ==
    /\ Supplied(meeting)
    /\ Get(Unwrap(Normalize(meeting), "meeting"), "mediaplacement") = Undefined

\* C2 as amended: the constructor throws in one case only, that of a meeting
\* response which, normalized and unwrapped, has no mediaplacement; so it
\* throws when no key of the response spells mediaplacement, and returns
\* when the meeting response is a documented one or is not supplied,
\* whatever the attendee response.  When it returns, a field that the
\* responses have nothing for is left absent.
C2_ThrowsWithoutMediaplacement ==
    /\ Finished =>
          /\ pc = "thrown" <=> NoMediaplacement(args[cur].meeting)
          /\ (Supplied(args[cur].meeting) /\ ~Spells(args[cur].meeting, "mediaplacement"))
                 => pc = "thrown"
          /\ \/ ~Supplied(args[cur].meeting)
             \/ ValidFlatMeeting(args[cur].meeting)
             \/ ValidWrappedMeeting(args[cur].meeting)
             => pc = "done"
    /\ pc = "done" => MissingIsAbsent

C2_Witness ==
    /\ pc = "thrown"
    /\ Spells(args[cur].meeting, "meetingid")
    /\ ~Spells(args[cur].meeting, "mediaplacement")
    /\ Supplied(args[cur].attendee)
    /\ this.credentials = Null

\* C3: case insensitivity.  A call whose arguments differ from another
\* call's in the letter-casing of keys only, at whatever depth, ends as that
\* call does: both throw, or both return the same meetingId, URLs and
\* credentials.
C3_CaseInsensitive == Compared("recase") => Outcome = first

C3_Witness ==
    /\ Compared("recase")
    /\ pc = "done"
    /\ args[2].meeting # args[1].meeting
    /\ args[2].attendee # args[1].attendee
    /\ this.meetingId = Str("m1")
    /\ this.urls.audioHostURL = Str("a")
    /\ this.credentials.attendeeId = Str("att1")

\* C4: attendee-id propagation.  The two default policies exist only once
\* the constructor is through with the credentials; both are given the same
\* identifier, which is credentials.attendeeId when an attendee response was
\* supplied (the AttendeeId of a documented response, wrapped or flat) and
\* null when none was.
C4_AttendeeIdPropagation ==
    /\ (this.videoDownlinkBandwidthPolicy # Null \/ this.videoUplinkBandwidthPolicy # Null)
           => /\ pc = "done"
              /\ (this.credentials # Null) <=> Supplied(args[cur].attendee)
    /\ pc = "done" =>
          LET attendee == args[cur].attendee
              id == this.videoDownlinkBandwidthPolicy.selfAttendeeId
          IN  /\ this.videoUplinkBandwidthPolicy.selfAttendeeId = id
              /\ id = IF Supplied(attendee) THEN this.credentials.attendeeId ELSE Null
              /\ ValidFlatAttendee(attendee) => id = Field(attendee.o, "attendeeid")
              /\ ValidWrappedAttendee(attendee) =>
                     id = Field(Field(attendee.o, "attendee").o, "attendeeid")

C4_Witness ==
    /\ pc = "done"
    /\ ValidWrappedAttendee(args[cur].attendee)
    /\ this.videoDownlinkBandwidthPolicy.selfAttendeeId = Str("att1")
    /\ this.videoUplinkBandwidthPolicy.selfAttendeeId = Str("att1")

\* C5: a type mismatch is a field absent.  A call whose arguments hold
\* nested structures where strings are expected, or strings where nested
\* structures are expected, ends as the call with those entries removed.
C5_MistypedIsAbsent == Compared("mistyped") => View(Outcome) = View(first)

\* C6 as stated: normalization is order-independent.  A call whose
\* arguments list the same entries in another order, at every depth, keys
\* that differ in letter-casing only included, ends as the first call does.
C6_OrderIndependent == Compared("reorder") => View(Outcome) = View(first)

\* C6 as amended: the same, for responses in which no object has two keys
\* that differ in letter-casing only.
C6_OrderIndependentCaseDistinct ==
    ( /\ Compared("reorder")
      /\ CaseDistinct(args[1].meeting)
      /\ CaseDistinct(args[1].attendee) )
    => View(Outcome) = View(first)

C6_Witness ==
    /\ Compared("reorder")
    /\ pc = "done"
    /\ CaseDistinct(args[1].meeting)
    /\ CaseDistinct(args[1].attendee)
    /\ args[2].meeting # args[1].meeting
    /\ this.meetingId.kind = "obj"
    /\ this.urls.screenViewingURL = Str("d")
    /\ this.credentials.externalUserId = Str("ext1")

\* C7: unknown keys do not interfere.  A call whose arguments hold keys
\* outside the vocabulary (in the response, in its wrapper, in its
\* mediaplacement) ends as the call without them, and a value that only
\* such keys lead to is nowhere in the configuration.
C7_UnknownKeysIgnored ==
    /\ Compared("unknown") => Outcome = first
    /\ ( /\ pc = "done"
         /\ ~Mentions(WithoutUnknown(args[cur].meeting), "xtra")
         /\ ~Mentions(WithoutUnknown(args[cur].attendee), "xtra") )
       => ~ConfigMentions(this, "xtra")

C7_Witness ==
    /\ Compared("unknown")
    /\ pc = "done"
    /\ Mentions(args[1].meeting, "xtra")
    /\ this.meetingId = Str("m1")
    /\ this.urls.signalingURL = Str("e")

\* C8: each response fills only its own part.  In a configuration the
\* constructor returns, urls is there exactly when a meeting response was
\* supplied and credentials exactly when an attendee response was; without a
\* meeting response meetingId is absent too.  Replacing the attendee
\* response changes neither whether the call returns nor meetingId and
\* urls; replacing the meeting response does not change credentials.
C8_OwnPartOnly ==
    /\ pc = "done" =>
          /\ (this.urls # Null) <=> Supplied(args[cur].meeting)
          /\ (this.credentials # Null) <=> Supplied(args[cur].attendee)
          /\ ~Supplied(args[cur].meeting) => this.meetingId = Null
    /\ Compared("attendee") =>
          /\ Outcome.result = first.result
          /\ pc = "done" => this.meetingId = first.meetingId /\ this.urls = first.urls
    /\ (Compared("meeting") /\ pc = "done" /\ first.result = "returned")
           => this.credentials = first.credentials

C8_Witness ==
    /\ Compared("attendee")
    /\ pc = "done"
    /\ first.credentials # Null
    /\ this.credentials = Null
    /\ this.meetingId = Str("m1")
    /\ this.urls.screenDataURL = Str("b")

\* C9 as stated: in a configuration the constructor returns, urls is absent
\* or has all six slots populated, and credentials is absent or has all
\* three populated.
C9_AllOrNothing ==
    pc = "done" =>
        /\ this.urls = Null \/ \A n \in DOMAIN this.urls : Populated(this.urls[n])
        /\ \/ this.credentials = Null
           \/ \A n \in DOMAIN this.credentials : Populated(this.credentials[n])

\* C9 as amended: in a configuration the constructor returns, urls is
\* absent exactly when no meeting response was supplied, and otherwise each
\* of its six slots has been assigned: it holds the value of its field, or
\* undefined when the response has no such field.  All six hold their
\* strings when the response is a documented one.  Likewise credentials and
\* its three slots.
C9_AssignedSlotBySlot ==
    pc = "done" =>
        /\ (this.urls = Null) <=> ~Supplied(args[cur].meeting)
        /\ this.urls # Null =>
              /\ \A n \in DOMAIN this.urls : this.urls[n] # Null
              /\ \A name \in URLFields \ Names(args[cur].meeting) :
                    this.urls[SlotOf[name]] = Undefined
              /\ (ValidFlatMeeting(args[cur].meeting) \/ ValidWrappedMeeting(args[cur].meeting))
                     => \A n \in DOMAIN this.urls : this.urls[n].kind = "str"
        /\ (this.credentials = Null) <=> ~Supplied(args[cur].attendee)
        /\ this.credentials # Null =>
              /\ \A n \in DOMAIN this.credentials : this.credentials[n] # Null
              /\ \A name \in CredentialFields \ Names(args[cur].attendee) :
                    this.credentials[SlotOf[name]] = Undefined
              /\ (ValidFlatAttendee(args[cur].attendee)
                      \/ ValidWrappedAttendee(args[cur].attendee))
                     => \A n \in DOMAIN this.credentials : this.credentials[n].kind = "str"

C9_Witness ==
    /\ pc = "done"
    /\ this.urls # Null
    /\ this.urls.audioHostURL = Undefined
    /\ this.urls.turnControlURL = Str("f")
    /\ this.credentials # Null
    /\ this.credentials.attendeeId = Str("att1")

\* C10: wrapper precedence and single-level unwrap.  When the normalized
\* response has the wrapper key and it holds a nested structure, the call
\* ends as the call whose response is that wrapper alone, with nothing
\* beside it and no second wrapper inside it.
C10_WrapperOnly == Compared("beside") => Outcome = first

C10_Witness ==
    /\ Compared("beside")
    /\ pc = "done"
    /\ \/ Len(args[1].meeting.o) > Len(args[2].meeting.o)
       \/ Spells(Field(args[1].meeting.o, "meeting"), "meeting")
    /\ this.meetingId = Str("m1")
    /\ this.urls.audioHostURL = Str("a")

====
